---- MODULE Spec2Model ----
(***************************************************************************)
(* Model of log_stash_fastapi:                                             *)
(*   - LogstashTCPHandler (log_config.py): one TCP socket, a blocking      *)
(*     connect loop, emit with reconnect-and-resend, close;                *)
(*   - the three loggers configured by setup_logging, each with a file     *)
(*     handler followed by the shared 'logstash' handler;                  *)
(*   - the threads of the process that log or close, and the collector     *)
(*     (reachable or not, resetting connections): Spec, LiveSpec;          *)
(*   - the tasks of main.py on their one event loop: LoopSpec;             *)
(*   - setup_logging with the handler it builds before dictConfig:         *)
(*     SetupSpec;                                                          *)
(*   - the record of a log call and the four formatters: PipeSpec.         *)
(* Python's logging library supplies Logger.callHandlers (handlers called  *)
(* in list order, an exception of one handler ends the loop) and           *)
(* Handler.handle (emit runs under the handler's lock).                    *)
(***************************************************************************)
EXTENDS Naturals, FiniteSets, Sequences

VARIABLES
    sock,           \* state of the socket object self.sock refers to
    lockOwner,      \* thread holding the handler's lock, or "none"
    pc,             \* per thread: where it is in the code
    call,           \* per thread: the operation in progress (or last finished)
    attempts,       \* per thread: sendall calls made by the current log call
    got,            \* per thread: the collector has received the payload of the current log call
    closeReturned,  \* some close() call on the handler has returned
    reachable,      \* the collector accepts connections
    stable,         \* the collector has become reachable for good
    \* setup_logging
    setupPc,        \* where setup_logging is
    sockFirst,      \* socket of the handler built by setup_logging before dictConfig
    \* one log call seen from the record: loggers, handlers, formatters
    record,         \* the LogRecord of the log call in progress (or of the last one)
    created,        \* that record as the log call created it
    now,            \* the clock (datetime.utcnow)
    pcall,          \* the log call: logger, place in callHandlers, what it has done
    payload,        \* per handler: the last payload its formatter returned
    first,          \* per handler: the first payload its formatter returned for the record
    loggerDict,     \* names of the loggers that exist (logging's manager)
    lastGet,        \* outcome of the last logging.getLogger call
    rootHandlers    \* handlers of the root logger

vars == <<sock, lockOwner, pc, call, attempts, got, closeReturned, reachable, stable>>

svars == <<setupPc, sockFirst>>

pvars == <<record, created, now, pcall, payload, first, loggerDict, lastGet, rootHandlers>>

allvars == <<vars, svars, pvars>>

\* Bound of the model: the writes of one log call that the peer lets fail by
\* resetting the connection (emit's recursion itself has no bound).
MaxFailedWrites == 2

\* t1 is the thread that runs setup_logging and then logs on the three loggers
\* (main.py: the import, then log_background); t2 is another thread of the
\* process: it logs as a request handler does (read_root) or closes the handler.
Threads == {"t1", "t2"}
MainThread == "t1"

SockStates == {"none", "created", "connected", "broken", "closed"}

\* logging's numeric levels of the names used by setup_logging.
LevelNo == [DEBUG |-> 10, INFO |-> 20, WARNING |-> 30, ERROR |-> 40, CRITICAL |-> 50]
Levels == DOMAIN LevelNo

Channels == {"activity_logger", "error_logger", "application_logger"}

\* 'loggers': the 'level' of each logger.
Threshold(c) ==
    CASE c = "activity_logger" -> LevelNo["DEBUG"]
      [] c = "error_logger" -> LevelNo["WARNING"]
      [] c = "application_logger" -> LevelNo["INFO"]

\* A handler list in which the network handler comes first.
HandlersLogstashFirst(c) ==
    CASE c = "activity_logger" -> <<"logstash", "activity_file">>
      [] c = "error_logger" -> <<"logstash", "error_file">>
      [] c = "application_logger" -> <<"logstash", "application_file">>

\* 'loggers': the ordered 'handlers' list of each logger.
Handlers(c) ==
    CASE c = "activity_logger" -> <<"activity_file", "logstash">>
      [] c = "error_logger" -> <<"error_file", "logstash">>
      [] c = "application_logger" -> <<"application_file", "logstash">>

HandlerSet(c) == {Handlers(c)[i] : i \in 1..Len(Handlers(c))}

Quiescent == {"idle", "returned", "raised"}
ConnectPCs == {"connect_new", "connect_do", "connect_sleep"}
EmitPCs == {"emit"} \cup ConnectPCs
ClosePCs == {"close_if", "close_sock", "close_super"}

\* setup_logging: the connect loop of the handler of line 142, the building of
\* the configuration, dictConfig.
SetupPCs == {"first_new", "first_do", "first_sleep", "config", "dictConfig"}

NoCall == [op |-> "none", chan |-> "none", idx |-> 0, invoked |-> {}, failed |-> {},
           afterClose |-> FALSE, before |-> {}]
InitCall == [NoCall EXCEPT !.op = "init"]

\* The handler object exists for the rest of the process once __init__ returned.
Constructed == call[MainThread].op # "init"

\* An open file descriptor is behind self.sock.
SockOpen == sock \in {"created", "connected", "broken"}

InDeliver(t) == call[t].op = "log" /\ pc[t] \in EmitPCs

-----------------------------------------------------------------------------
(* LogRecord and the formatters *)

\* Bounds of the record model: the clock runs from 0 to MaxClock, and one log
\* call formats its record at most MaxFormats times per handler chain entry
\* (emit formats again each time it runs again after a reconnect).
MaxClock == 2
MaxFormats == 3

\* An attribute no formatter has set on the record.
Unset == "unset"

\* record.exc_info: None, or the (type, value, traceback) triple.
None == <<>>
ExcInfos == {None, <<"ValueError", "boom", "tb">>}

\* logging.LogRecord as Logger._log builds it, and the attributes the
\* formatters add to it.
MakeRecord(c, lv, e, t) ==
    [name |-> c, levelname |-> lv, msg |-> "m", location |-> "main.py", exc_info |-> e,
     created |-> t, snowflake_id |-> Unset, machine_id |-> Unset, exc_type |-> Unset,
     exc_message |-> Unset, stack_trace |-> Unset, message |-> Unset, exc_text |-> Unset]

NoRecord == MakeRecord("none", "NOTSET", None, 0)

Records == {MakeRecord(c, lv, e, t) : c \in Channels, lv \in Levels, e \in ExcInfos, t \in 0..MaxClock}

\* The payload of a handler that has formatted nothing.
NoPayload == [formatter |-> "none"]

\* CustomFormatter.format: "{snowflake_id}::{utcnow}::{message}".
CustomFormatter(r, t) ==
    [out |-> [formatter |-> "custom_formatter", snowflake_id |-> "1245", time |-> t,
              message |-> r.msg],
     rec |-> [r EXCEPT !.snowflake_id = "1245"]]

\* CustomErrorFormatter.format.
CustomErrorFormatter(r, t) ==
    LET r1 == [r EXCEPT !.machine_id = "YOUR_MACHINE_ID_HERE", !.snowflake_id = "1245"]
        r2 == IF r1.exc_info # None
              THEN [r1 EXCEPT !.exc_type = r1.exc_info[1], !.exc_message = r1.exc_info[2],
                              !.stack_trace = r1.exc_info[3], !.exc_info = None]
              ELSE [r1 EXCEPT !.exc_type = "", !.exc_message = "", !.stack_trace = ""]
    IN  [out |-> [formatter |-> "error_formatter", snowflake_id |-> r2.snowflake_id,
                  time |-> t, machine_id |-> r2.machine_id, level |-> r2.levelname,
                  exc_type |-> r2.exc_type, exc_message |-> r2.exc_message,
                  location |-> r2.location, stack_trace |-> r2.stack_trace],
         rec |-> r2]

\* CustomApplicationlogFormatter.format.
CustomApplicationlogFormatter(r, t) ==
    LET r1 == [r EXCEPT !.snowflake_id = "1245", !.machine_id = "YOUR_MACHINE_ID_HERE"]
    IN  [out |-> [formatter |-> "application_formatter", snowflake_id |-> r1.snowflake_id,
                  time |-> t, machine_id |-> r1.machine_id, level |-> r1.levelname,
                  message |-> r1.msg],
         rec |-> r1]

\* LogstashFormatter.format: the JSON object; the key "exception" is there only
\* if record.exc_info is set (exception = None stands for the key left out).
LogstashFormatter(r, t) ==
    [out |-> [formatter |-> "logstash", snowflake_id |-> "1245", timestamp |-> t,
              machine_id |-> "YOUR_MACHINE_ID_HERE", level |-> r.levelname,
              message |-> r.msg, location |-> r.location,
              exception |-> IF r.exc_info # None THEN r.exc_info ELSE None],
     rec |-> r]

\* logging.Formatter.format with BASIC_FORMAT (the handler basicConfig gives the
\* root logger): it caches the message and the exception text on the record.
BasicFormatter(r, t) ==
    LET r1 == [r EXCEPT !.message = r.msg,
                        !.exc_text = IF r.exc_info # None /\ r.exc_text = Unset
                                     THEN r.exc_info[3] ELSE @]
    IN  [out |-> [formatter |-> "basic", level |-> r1.levelname, name |-> r1.name,
                  message |-> r1.message, exc_text |-> r1.exc_text],
         rec |-> r1]

Formatters == {"custom_formatter", "error_formatter", "application_formatter", "logstash", "basic"}

\* 'handlers': the 'formatter' of each handler.
FormatterOf(h) ==
    CASE h = "activity_file" -> "custom_formatter"
      [] h = "error_file" -> "error_formatter"
      [] h = "application_file" -> "application_formatter"
      [] h = "logstash" -> "logstash"
      [] h = "stderr" -> "basic"

\* Handler.format: the handler's formatter applied to the record at clock t.
Format(f, r, t) ==
    CASE f = "custom_formatter" -> CustomFormatter(r, t)
      [] f = "error_formatter" -> CustomErrorFormatter(r, t)
      [] f = "application_formatter" -> CustomApplicationlogFormatter(r, t)
      [] f = "logstash" -> LogstashFormatter(r, t)
      [] f = "basic" -> BasicFormatter(r, t)

AllHandlers == {"activity_file", "error_file", "application_file", "logstash", "stderr"}

\* 'loggers': 'propagate' (True where the configuration does not say).
Propagate(c) == c # "error_logger"

\* A level test that lets every record through.
IsEnabledForAlways(c, lv) == TRUE

\* Logger.isEnabledFor.
IsEnabledFor(c, lv) == LevelNo[lv] >= Threshold(c)

\* Names that code may pass to logging.getLogger.
LoggerNames == Channels \cup {"audit_logger"}

NoLogCall == [state |-> "idle", idx |-> 0, nformat |-> 0, nwrite |-> 0, tries |-> 0]

\* No log call has been made and no logger looked up.
PipeIdle ==
    /\ record = NoRecord
    /\ created = NoRecord
    /\ now = 0
    /\ pcall = NoLogCall
    /\ payload = [h \in AllHandlers |-> NoPayload]
    /\ first = [h \in AllHandlers |-> NoPayload]
    /\ lastGet = [name |-> "none", result |-> "none"]
    /\ rootHandlers = <<>>


TypeOK ==
    /\ sock \in SockStates
    /\ lockOwner \in Threads \cup {"none"}
    /\ pc \in [Threads -> Quiescent \cup EmitPCs \cup ClosePCs
                           \cup {"dispatch", "constructed", "pending", "setup"}]
    /\ attempts \in [Threads -> 0..(MaxFailedWrites + 1)]
    /\ got \in [Threads -> BOOLEAN]
    /\ closeReturned \in BOOLEAN
    /\ reachable \in BOOLEAN
    /\ stable \in BOOLEAN
    /\ setupPc \in SetupPCs
    /\ sockFirst \in SockStates
    /\ now \in 0..MaxClock
    /\ loggerDict \subseteq LoggerNames
    /\ rootHandlers \in {<<>>, <<"stderr">>}

\* LogstashTCPHandler.__init__ has run up to self.sock = None and enters connect().
Init ==
    /\ sock = "none"
    /\ lockOwner = "none"
    /\ pc = [t \in Threads |-> IF t = MainThread THEN "connect_new" ELSE "idle"]
    /\ call = [t \in Threads |-> IF t = MainThread THEN InitCall ELSE NoCall]
    /\ attempts = [t \in Threads |-> 0]
    /\ got = [t \in Threads |-> FALSE]
    /\ closeReturned = FALSE
    /\ reachable \in BOOLEAN
    /\ stable = FALSE
    /\ setupPc = "dictConfig"
    /\ sockFirst = "closed"
    /\ PipeIdle
    /\ loggerDict = {}

----------------------------------------------------------------------------
(* Logger.log -> Logger.handle -> Logger.callHandlers *)

\* The log call of thread t has gone through the handler at call[t].idx.
Advance(t, c) ==
    IF c.idx < Len(Handlers(c.chan))
    THEN /\ pc' = [pc EXCEPT ![t] = "dispatch"]
         /\ call' = [call EXCEPT ![t] = [c EXCEPT !.idx = c.idx + 1]]
    ELSE /\ pc' = [pc EXCEPT ![t] = "returned"]
         /\ call' = [call EXCEPT ![t] = c]

\* logger.<level>(msg): a record below the logger's level is dropped (idx 0);
\* otherwise callHandlers starts at the first handler of the list.
BeginLog(t, c, lv) ==
    /\ attempts' = [attempts EXCEPT ![t] = 0]
    /\ got' = [got EXCEPT ![t] = FALSE]
    /\ IF LevelNo[lv] < Threshold(c)
       THEN /\ pc' = [pc EXCEPT ![t] = "returned"]
            /\ call' = [call EXCEPT ![t] = [NoCall EXCEPT !.op = "log", !.chan = c]]
       ELSE /\ pc' = [pc EXCEPT ![t] = "dispatch"]
            /\ call' = [call EXCEPT ![t] =
                            [NoCall EXCEPT !.op = "log", !.chan = c, !.idx = 1]]
    /\ UNCHANGED <<sock, lockOwner, closeReturned, reachable, stable>>

\* log_background: a record of any level on any of the three loggers.
StartLog(t) ==
    /\ t = MainThread
    /\ pc[t] \in Quiescent
    /\ Constructed
    /\ \E c \in Channels, lv \in Levels : BeginLog(t, c, lv)
    /\ UNCHANGED <<svars, pvars>>

\* read_root: application_logger.info(...).
RequestLog(t) ==
    /\ t # MainThread
    /\ pc[t] \in Quiescent
    /\ Constructed
    /\ BeginLog(t, "application_logger", "INFO")
    /\ UNCHANGED <<svars, pvars>>

\* main.py: setup_logging() has returned; the first record of the process is
\* activity_logger.info(...).
FirstLog(t) ==
    /\ pc[t] = "constructed"
    /\ BeginLog(t, "activity_logger", "INFO")
    /\ UNCHANGED <<svars, pvars>>

\* logging.FileHandler: format and append; StreamHandler.emit catches every
\* exception and hands it to handleError, which does not raise.
FileEmit(t) ==
    /\ pc[t] = "dispatch"
    /\ LET h == Handlers(call[t].chan)[call[t].idx] IN
        /\ h # "logstash"
        /\ \E ok \in BOOLEAN :
            Advance(t, [call[t] EXCEPT !.invoked = @ \cup {h},
                                       !.failed = IF ok THEN @ ELSE @ \cup {h}])
    /\ UNCHANGED <<sock, lockOwner, attempts, got, closeReturned, reachable, stable>>
    /\ UNCHANGED <<svars, pvars>>

\* A handler lock that excludes nobody.
CanAcquireNoLock(t) == TRUE

\* Handler.acquire: the handler's lock is free (or already t's: an RLock).
CanAcquire(t) == lockOwner \in {"none", t}

\* Handler.handle of the 'logstash' handler: take the handler's lock, then emit.
Handle(t) ==
    /\ pc[t] = "dispatch"
    /\ Handlers(call[t].chan)[call[t].idx] = "logstash"
    /\ CanAcquire(t)
    /\ lockOwner' = t
    /\ pc' = [pc EXCEPT ![t] = "emit"]
    /\ call' = [call EXCEPT ![t] =
                    [@ EXCEPT !.invoked = @ \cup {"logstash"},
                              !.afterClose = closeReturned,
                              !.before = {u \in Threads \ {t} : InDeliver(u)}]]
    /\ UNCHANGED <<sock, attempts, got, closeReturned, reachable, stable>>
    /\ UNCHANGED <<svars, pvars>>

\* emit has ended (returned or raised): handle's finally releases the lock.
Release(t) == lockOwner' = IF lockOwner = t THEN "none" ELSE lockOwner

\* t's deliver is over: it is no longer an earlier deliver of anyone.
Forget(t, cl) == [u \in Threads |-> [cl[u] EXCEPT !.before = @ \ {t}]]

----------------------------------------------------------------------------
(* LogstashTCPHandler.emit *)

\* format, then sendall on a connected socket: the collector gets the line.
EmitOk(t) ==
    /\ pc[t] = "emit"
    /\ sock = "connected"
    /\ attempts' = [attempts EXCEPT ![t] = @ + 1]
    /\ got' = [got EXCEPT ![t] = TRUE]
    /\ Release(t)
    /\ LET c == call[t] IN
        IF c.idx < Len(Handlers(c.chan))
        THEN /\ pc' = [pc EXCEPT ![t] = "dispatch"]
             /\ call' = Forget(t, [call EXCEPT ![t] = [c EXCEPT !.idx = c.idx + 1]])
        ELSE /\ pc' = [pc EXCEPT ![t] = "returned"]
             /\ call' = Forget(t, call)
    /\ UNCHANGED <<sock, closeReturned, reachable, stable>>
    /\ UNCHANGED <<svars, pvars>>

\* sendall raises BrokenPipeError or ConnectionResetError (the peer reset the
\* connection; a socket that is not connected gives EPIPE on Linux). How much of
\* the line went out before the error is unknown. The except clause logs and
\* calls self.connect().
EmitBroken(t) ==
    /\ pc[t] = "emit"
    /\ sock \in {"broken", "created"}
    /\ attempts' = [attempts EXCEPT ![t] = @ + 1]
    /\ \E sent \in BOOLEAN : got' = [got EXCEPT ![t] = @ \/ (sent /\ sock = "broken")]
    /\ pc' = [pc EXCEPT ![t] = "connect_new"]
    /\ UNCHANGED <<sock, lockOwner, call, closeReturned, reachable, stable>>
    /\ UNCHANGED <<svars, pvars>>

\* sendall raises something else: OSError EBADF on a closed socket, ENOTCONN on
\* a socket that is not connected (BSD), AttributeError on None. Nothing in
\* emit catches it: it leaves emit, handle and the caller's log call.
EmitRaise(t) ==
    /\ pc[t] = "emit"
    /\ sock \in {"closed", "created", "none"}
    /\ attempts' = [attempts EXCEPT ![t] = 0]
    /\ Release(t)
    /\ pc' = [pc EXCEPT ![t] = "raised"]
    /\ call' = Forget(t, [call EXCEPT ![t] = [@ EXCEPT !.failed = @ \cup {"logstash"}]])
    /\ UNCHANGED <<sock, got, closeReturned, reachable, stable>>
    /\ UNCHANGED <<svars, pvars>>

----------------------------------------------------------------------------
(* LogstashTCPHandler.connect *)

\* self.sock = socket.socket(...): a new socket replaces the old one.
ConnectNew(t) ==
    /\ pc[t] = "connect_new"
    /\ sock' = "created"
    /\ pc' = [pc EXCEPT ![t] = "connect_do"]
    /\ UNCHANGED <<lockOwner, call, attempts, got, closeReturned, reachable, stable>>
    /\ UNCHANGED <<svars, pvars>>

\* After the reconnect, emit returns without emitting the record again.
ConnectOkNoResend(t) ==
    /\ pc[t] = "connect_do"
    /\ sock = "created"
    /\ reachable
    /\ sock' = "connected"
    /\ IF call[t].op = "init"
       THEN /\ pc' = [pc EXCEPT ![t] = "constructed"]
            /\ call' = [call EXCEPT ![t] = NoCall]
            /\ UNCHANGED lockOwner
       ELSE /\ pc' = [pc EXCEPT ![t] = "returned"]
            /\ call' = Forget(t, call)
            /\ Release(t)
    /\ UNCHANGED <<attempts, got, closeReturned, reachable, stable>>
    /\ UNCHANGED <<svars, pvars>>

\* self.sock.connect(...) succeeds; break. In __init__ the constructor returns,
\* in emit the record is emitted again (self.emit(record)).
ConnectOk(t) ==
    /\ pc[t] = "connect_do"
    /\ sock = "created"
    /\ reachable
    /\ sock' = "connected"
    /\ pc' = [pc EXCEPT ![t] = IF call[t].op = "init" THEN "constructed" ELSE "emit"]
    /\ call' = [call EXCEPT ![t] = IF @.op = "init" THEN NoCall ELSE @]
    /\ UNCHANGED <<lockOwner, attempts, got, closeReturned, reachable, stable>>
    /\ UNCHANGED <<svars, pvars>>

\* The failure leaves connect() and the operation that called it.
ConnectFailRaises(t) ==
    /\ pc[t] = "connect_do"
    /\ ~(sock = "created" /\ reachable)
    /\ pc' = [pc EXCEPT ![t] = "raised"]
    /\ Release(t)
    /\ call' = Forget(t, [call EXCEPT ![t] = IF @.op = "init" THEN [NoCall EXCEPT !.op = "initfailed"] ELSE @])
    /\ attempts' = [attempts EXCEPT ![t] = 0]
    /\ UNCHANGED <<sock, got, closeReturned, reachable, stable>>
    /\ UNCHANGED <<svars, pvars>>

\* self.sock.connect(...) raises: refused, or OSError on a socket that close()
\* closed. except (socket.error, ConnectionRefusedError): log, then sleep.
ConnectFail(t) ==
    /\ pc[t] = "connect_do"
    /\ ~(sock = "created" /\ reachable)
    /\ pc' = [pc EXCEPT ![t] = "connect_sleep"]
    /\ UNCHANGED <<sock, lockOwner, call, attempts, got, closeReturned, reachable, stable>>
    /\ UNCHANGED <<svars, pvars>>

\* time.sleep(5) is over: the next turn of while True.
ConnectSleep(t) ==
    /\ pc[t] = "connect_sleep"
    /\ pc' = [pc EXCEPT ![t] = "connect_new"]
    /\ UNCHANGED <<sock, lockOwner, call, attempts, got, closeReturned, reachable, stable>>
    /\ UNCHANGED <<svars, pvars>>

----------------------------------------------------------------------------
(* LogstashTCPHandler.close: takes no handler lock *)

\* A close that fails on a socket already closed (as os.close on a stale fd).
SocketCloseStrict(s) == [state |-> "closed", err |-> (s = "closed")]

\* socket.close(): the descriptor is released; closing a closed socket is a
\* no-op and does not raise.
SocketClose(s) == [state |-> "closed", err |-> FALSE]

StartClose(t) ==
    /\ t # MainThread
    /\ pc[t] \in Quiescent
    /\ Constructed
    /\ pc' = [pc EXCEPT ![t] = "close_if"]
    /\ call' = [call EXCEPT ![t] = [NoCall EXCEPT !.op = "close"]]
    /\ UNCHANGED <<sock, lockOwner, attempts, got, closeReturned, reachable, stable>>
    /\ UNCHANGED <<svars, pvars>>

\* if self.sock:
CloseIf(t) ==
    /\ pc[t] = "close_if"
    /\ pc' = [pc EXCEPT ![t] = IF sock # "none" THEN "close_sock" ELSE "close_super"]
    /\ UNCHANGED <<sock, lockOwner, call, attempts, got, closeReturned, reachable, stable>>
    /\ UNCHANGED <<svars, pvars>>

\* self.sock.close(): self.sock is read again and keeps referring to the socket.
CloseSock(t) ==
    /\ pc[t] = "close_sock"
    /\ LET r == SocketClose(sock) IN
        /\ sock' = r.state
        /\ pc' = [pc EXCEPT ![t] = IF r.err THEN "raised" ELSE "close_super"]
    /\ UNCHANGED <<lockOwner, call, attempts, got, closeReturned, reachable, stable>>
    /\ UNCHANGED <<svars, pvars>>

\* super().close(), then close() returns.
CloseSuper(t) ==
    /\ pc[t] = "close_super"
    /\ pc' = [pc EXCEPT ![t] = "returned"]
    /\ closeReturned' = TRUE
    /\ UNCHANGED <<sock, lockOwner, call, attempts, got, reachable, stable>>
    /\ UNCHANGED <<svars, pvars>>

----------------------------------------------------------------------------
(* The collector and the network *)

\* The peer resets the connection: the next sendall on it fails.
Break ==
    /\ sock = "connected"
    /\ ~stable
    /\ \A t \in Threads : pc[t] \in EmitPCs => attempts[t] < MaxFailedWrites
    /\ sock' = "broken"
    /\ UNCHANGED <<lockOwner, pc, call, attempts, got, closeReturned, reachable, stable>>
    /\ UNCHANGED <<svars, pvars>>

CollectorDown ==
    /\ reachable
    /\ ~stable
    /\ reachable' = FALSE
    /\ UNCHANGED <<sock, lockOwner, pc, call, attempts, got, closeReturned, stable>>
    /\ UNCHANGED <<svars, pvars>>

CollectorUp ==
    /\ ~reachable
    /\ reachable' = TRUE
    /\ UNCHANGED <<sock, lockOwner, pc, call, attempts, got, closeReturned, stable>>
    /\ UNCHANGED <<svars, pvars>>

\* From here on the collector stays reachable and resets no connection.
Stabilize ==
    /\ ~stable
    /\ stable' = TRUE
    /\ reachable' = TRUE
    /\ UNCHANGED <<sock, lockOwner, pc, call, attempts, got, closeReturned>>
    /\ UNCHANGED <<svars, pvars>>

----------------------------------------------------------------------------

\* The steps of thread t that are part of an operation already begun.
Step(t) ==
    \/ FirstLog(t)
    \/ FileEmit(t)
    \/ EmitOk(t)
    \/ EmitBroken(t)
    \/ EmitRaise(t)
    \/ ConnectNew(t)
    \/ ConnectOk(t)
    \/ ConnectFail(t)
    \/ ConnectSleep(t)
    \/ CloseIf(t)
    \/ CloseSock(t)
    \/ CloseSuper(t)

Next ==
    \/ \E t \in Threads : StartLog(t) \/ RequestLog(t) \/ StartClose(t) \/ Handle(t) \/ Step(t)
    \/ Break
    \/ CollectorDown
    \/ CollectorUp
    \/ Stabilize

Spec == Init /\ [][Next]_allvars

\* Every thread keeps running its operation (time.sleep returns, a thread that
\* can go on does), and a thread waiting for the handler's lock gets it.
LiveSpec ==
    /\ Spec
    /\ \A t \in Threads : WF_vars(Step(t))
    /\ \A t \in Threads : SF_vars(Handle(t))

-----------------------------------------------------------------------------
(* main.py: the tasks of the event loop. log_background (t1) and the request *)
(* handlers (t2: read_root) are coroutines of one loop; a log call has no    *)
(* await in it, so a task that is in a log call keeps the loop.              *)

\* No other task is in the middle of a log call: the loop can run task t.
LoopFree(t) == \A u \in Threads \ {t} : pc[u] \in Quiescent \cup {"pending"}

\* A request for "/" has arrived: its handler is ready to run.
RequestArrive(t) ==
    /\ t # MainThread
    /\ pc[t] \in Quiescent
    /\ Constructed
    /\ pc' = [pc EXCEPT ![t] = "pending"]
    /\ UNCHANGED <<sock, lockOwner, call, attempts, got, closeReturned, reachable, stable>>
    /\ UNCHANGED <<svars, pvars>>

\* The loop runs read_root: application_logger.info(...).
RunRequest(t) ==
    /\ pc[t] = "pending"
    /\ LoopFree(t)
    /\ BeginLog(t, "application_logger", "INFO")
    /\ UNCHANGED <<svars, pvars>>

\* The loop runs log_background, which logs.
TaskLog(t) ==
    /\ LoopFree(t)
    /\ StartLog(t)

\* The steps of a log call when nothing closes the handler.
LogStep(t) ==
    \/ FirstLog(t)
    \/ FileEmit(t)
    \/ EmitOk(t)
    \/ EmitBroken(t)
    \/ ConnectNew(t)
    \/ ConnectOk(t)
    \/ ConnectFail(t)
    \/ ConnectSleep(t)

LoopNext ==
    \/ \E t \in Threads : RequestArrive(t) \/ RunRequest(t) \/ TaskLog(t) \/ Handle(t) \/ LogStep(t)
    \/ Break
    \/ CollectorDown
    \/ CollectorUp
    \/ Stabilize

LoopSpec == Init /\ [][LoopNext]_allvars

-----------------------------------------------------------------------------
(* setup_logging: line 142 builds a LogstashTCPHandler that no logger gets;  *)
(* dictConfig closes the handlers that exist, builds the configured ones     *)
(* (the 'logstash' handler among them) and attaches them to the loggers.     *)

SetupInit ==
    /\ sock = "none"
    /\ lockOwner = "none"
    /\ pc = [t \in Threads |-> IF t = MainThread THEN "setup" ELSE "idle"]
    /\ call = [t \in Threads |-> IF t = MainThread THEN InitCall ELSE NoCall]
    /\ attempts = [t \in Threads |-> 0]
    /\ got = [t \in Threads |-> FALSE]
    /\ closeReturned = FALSE
    /\ reachable \in BOOLEAN
    /\ stable = FALSE
    /\ setupPc = "first_new"
    /\ sockFirst = "none"
    /\ PipeIdle
    /\ loggerDict = {}

\* connect() of the first handler: self.sock = socket.socket(...). The socket
\* object of the attempt before has no other reference and is closed with it.
FirstConnectNew ==
    /\ setupPc = "first_new"
    /\ sockFirst' = "created"
    /\ setupPc' = "first_do"
    /\ UNCHANGED <<vars, pvars>>

\* self.sock.connect(...) succeeds; __init__ returns and setup_logging goes on
\* to build the configuration.
FirstConnectOk ==
    /\ setupPc = "first_do"
    /\ reachable
    /\ sockFirst' = "connected"
    /\ setupPc' = "config"
    /\ UNCHANGED <<vars, pvars>>

\* self.sock.connect(...) fails.
FirstConnectFail ==
    /\ setupPc = "first_do"
    /\ ~reachable
    /\ setupPc' = "first_sleep"
    /\ UNCHANGED <<sockFirst, vars, pvars>>

\* time.sleep(5), then the loop again.
FirstConnectSleep ==
    /\ setupPc = "first_sleep"
    /\ setupPc' = "first_new"
    /\ UNCHANGED <<sockFirst, vars, pvars>>

\* logging.config.dictConfig: _clearExistingHandlers closes every handler that
\* exists (logging.shutdown calls close() of the first handler), then the
\* 'logstash' handler is built: its __init__ enters connect().
ClearExistingHandlers ==
    /\ setupPc = "config"
    /\ sockFirst' = SocketClose(sockFirst).state
    /\ setupPc' = "dictConfig"
    /\ pc' = [pc EXCEPT ![MainThread] = "connect_new"]
    /\ UNCHANGED <<sock, lockOwner, call, attempts, got, closeReturned, reachable, stable>>
    /\ UNCHANGED pvars

SetupNext ==
    \/ FirstConnectNew
    \/ FirstConnectOk
    \/ FirstConnectFail
    \/ FirstConnectSleep
    \/ ClearExistingHandlers
    \/ \E t \in Threads : StartLog(t) \/ Handle(t) \/ LogStep(t)
    \/ Break
    \/ CollectorDown
    \/ CollectorUp
    \/ Stabilize

SetupSpec == SetupInit /\ [][SetupNext]_allvars

-----------------------------------------------------------------------------
(* One log call seen from its record: Logger.log, Logger.callHandlers,       *)
(* Handler.format, with the handler connected and no other call in progress *)

\* The handlers Logger.callHandlers reaches for logger c, in order: its own,
\* then the root logger's if c propagates.
Chain(c) == Handlers(c) \o (IF Propagate(c) THEN rootHandlers ELSE <<>>)

\* setup_logging has returned, the handler is connected and nothing is logging.
TransportReady ==
    /\ sock = "connected"
    /\ lockOwner = "none"
    /\ pc = [t \in Threads |-> "idle"]
    /\ call = [t \in Threads |-> NoCall]
    /\ attempts = [t \in Threads |-> 0]
    /\ got = [t \in Threads |-> FALSE]
    /\ closeReturned = FALSE
    /\ reachable = TRUE
    /\ stable = TRUE
    /\ setupPc = "dictConfig"
    /\ sockFirst = "closed"

PipeInit ==
    /\ TransportReady
    /\ PipeIdle
    /\ loggerDict = Channels

\* logger.debug/info/warning/error/critical(msg, exc_info=...): the level test,
\* then Logger._log builds the record and Logger.handle passes it on.
Log(c, lv, e) ==
    /\ pcall.state \in {"idle", "done"}
    /\ record' = MakeRecord(c, lv, e, now)
    /\ created' = record'
    /\ payload' = [h \in AllHandlers |-> NoPayload]
    /\ first' = [h \in AllHandlers |-> NoPayload]
    /\ pcall' = IF IsEnabledFor(c, lv)
                THEN [NoLogCall EXCEPT !.state = "handlers", !.idx = 1]
                ELSE [NoLogCall EXCEPT !.state = "done"]
    /\ UNCHANGED <<now, loggerDict, lastGet, rootHandlers>>
    /\ UNCHANGED <<vars, svars>>

\* Logger.callHandlers: the next handler formats the record and writes the
\* payload. The network handler's write may fail with a broken pipe: emit
\* reconnects and runs again, formatting the record again.
CallHandler ==
    /\ pcall.state = "handlers"
    /\ LET chain == Chain(record.name)
           h == chain[pcall.idx]
           f == FormatterOf(h)
           res == Format(f, record, now)
       IN  /\ record' = res.rec
           /\ payload' = [payload EXCEPT ![h] = res.out]
           /\ first' = [first EXCEPT ![h] = IF @ = NoPayload THEN res.out ELSE @]
           /\ \E ok \in BOOLEAN :
                /\ ~ok => h = "logstash" /\ pcall.tries + 1 < MaxFormats
                /\ pcall' = IF ok
                            THEN [pcall EXCEPT !.nformat = @ + 1, !.nwrite = @ + 1, !.tries = 0,
                                               !.idx = @ + 1,
                                               !.state = IF pcall.idx = Len(chain)
                                                         THEN "done" ELSE "handlers"]
                            ELSE [pcall EXCEPT !.nformat = @ + 1, !.tries = @ + 1]
    /\ UNCHANGED <<created, now, loggerDict, lastGet, rootHandlers>>
    /\ UNCHANGED <<vars, svars>>

\* Time passes: a later datetime.utcnow() returns a later time.
Tick ==
    /\ now < MaxClock
    /\ now' = now + 1
    /\ UNCHANGED <<record, created, pcall, payload, first, loggerDict, lastGet, rootHandlers>>
    /\ UNCHANGED <<vars, svars>>

\* logging.getLogger(name): Manager.getLogger returns the logger of that name
\* and makes one if there is none.
GetLogger(n) ==
    /\ loggerDict' = loggerDict \cup {n}
    /\ lastGet' = [name |-> n, result |-> "logger"]
    /\ UNCHANGED <<record, created, now, pcall, payload, first, rootHandlers>>
    /\ UNCHANGED <<vars, svars>>

\* logging.error(...) of connect and emit: the module-level function calls
\* basicConfig() when the root logger has no handler, which gives it a
\* StreamHandler on stderr.
BasicConfig ==
    /\ rootHandlers = <<>>
    /\ rootHandlers' = <<"stderr">>
    /\ UNCHANGED <<record, created, now, pcall, payload, first, loggerDict, lastGet>>
    /\ UNCHANGED <<vars, svars>>

PipeNext ==
    \/ \E c \in Channels, lv \in Levels, e \in ExcInfos : Log(c, lv, e)
    \/ CallHandler
    \/ Tick
    \/ \E n \in LoggerNames : GetLogger(n)
    \/ BasicConfig

PipeSpec == PipeInit /\ [][PipeNext]_allvars



----------------------------------------------------------------------------
(* Properties *)

\* close() is running or has returned.
CloseInvolved == closeReturned \/ \E u \in Threads : pc[u] \in ClosePCs

\* The log call of t met a broken connection and is in the connect loop.
Reconnecting(t) == call[t].op = "log" /\ pc[t] \in ConnectPCs

\* The log call of t returned to its caller after a re-attempt, the collector
\* has its payload and the sink is connected.
Redelivered(t) ==
    /\ call[t].op = "log"
    /\ pc[t] = "returned"
    /\ attempts[t] >= 2
    /\ got[t]
    /\ sock = "connected"

\* C1: when a write of a log call fails with a broken connection on a sink that
\* nobody closes, and the collector is reachable for good, the call eventually
\* returns without an error, after a reconnect, with the sink connected and the
\* payload received by the collector at least once.
C1_TransientFailureRecovered ==
    \A t \in Threads :
        (Reconnecting(t) /\ stable /\ ~CloseInvolved) ~> (Redelivered(t) \/ CloseInvolved)

C1_Witness == \E t \in Threads : Redelivered(t) /\ stable /\ ~CloseInvolved

\* C2: one log call makes at most two sendall attempts of its payload: the
\* original and one re-attempt after the reconnect.
C2_AtMostTwoWrites == \A t \in Threads : attempts[t] <= 2

\* C3: a deliver invoked after close() has returned is rejected: it writes
\* nothing to the collector and never enters the connect loop.
C3_DeliverAfterCloseRejected ==
    \A t \in Threads :
        (call[t].op = "log" /\ call[t].afterClose) =>
            (~got[t] /\ pc[t] \in {"emit", "raised"})

\* C4: once close() has returned and no operation is in flight any more, the
\* sink holds no open socket, whatever deliver was in flight during close().
C4_CloseSafeWithInflightDeliver ==
    (closeReturned /\ \A t \in Threads : pc[t] \in Quiescent) => ~SockOpen

\* The constructor is still inside connect().
Constructing == call[MainThread].op = "init"

\* The first log call of the process has returned with its payload written.
FirstDelivered ==
    /\ call[MainThread].op = "log"
    /\ pc[MainThread] = "returned"
    /\ got[MainThread]

\* C5: the connect loop of the constructor never raises and has no failure
\* exit (the thread that built the handler only ever fails inside a log call),
\* and once the collector is reachable for good the constructor returns and the
\* log call that follows it writes its payload (unless the sink is closed).
C5_ConnectRetriesUntilReachable ==
    /\ [](pc[MainThread] = "raised" => call[MainThread].op = "log")
    /\ [](Constructing => pc[MainThread] \in ConnectPCs)
    /\ (Constructing /\ stable) ~> (FirstDelivered \/ CloseInvolved)

C5_Witness ==
    /\ Constructing
    /\ pc[MainThread] = "connect_sleep"
    /\ ~reachable

\* C6: once close() has returned, a connect loop that is still retrying ends,
\* also against a collector that stays unreachable (the loop ends, unless the
\* collector becomes reachable and ends it by a successful connection).
C6_CloseEndsRetryLoop ==
    \A t \in Threads :
        (closeReturned /\ pc[t] \in ConnectPCs) ~> (pc[t] \notin ConnectPCs \/ reachable)

\* C7: at the return of close() the sink is Disconnected: no open socket is
\* behind self.sock, from whatever state close() was called.
C7_CloseLeavesDisconnected ==
    [][\A t \in Threads :
          (pc[t] = "close_super" /\ pc'[t] = "returned") => ~SockOpen']_vars

\* C8: a close() that runs after another close() returned, with the socket as
\* that close() left it, changes nothing of the sink and does not raise.
C8_CloseIdempotent ==
    [][\A t \in Threads :
          (closeReturned /\ sock = "closed" /\ pc[t] \in ClosePCs /\ pc'[t] # pc[t])
              => (sock' = "closed" /\ pc'[t] # "raised" /\ lockOwner' = lockOwner)]_vars

C8_Witness ==
    \E t \in Threads : closeReturned /\ sock = "closed" /\ pc[t] = "close_super"

\* C9: a log call whose deliver was invoked before another log call's deliver
\* makes no write (first attempt or re-attempt) after a write of that later call.
C9_WritesInInvocationOrder ==
    [][\A t \in Threads :
          attempts'[t] > attempts[t] =>
              \A u \in Threads \ {t} : ~(t \in call[u].before /\ attempts[u] >= 1)]_vars

\* A second thread waits for the handler while the first is about to re-attempt.
C9_Witness ==
    \E t \in Threads, u \in Threads :
        /\ t # u
        /\ pc[t] = "emit" /\ attempts[t] >= 1 /\ lockOwner = t
        /\ pc[u] = "dispatch"
        /\ Handlers(call[u].chan)[call[u].idx] = "logstash"

\* The log call of t went through callHandlers and is over.
Dispatched(t) == call[t].op = "log" /\ call[t].idx >= 1 /\ pc[t] \in {"returned", "raised"}

\* C10: when a handler of a logger fails during a log call at or above the
\* logger's level, every handler of that logger has still been invoked.
C10_SinkFailureIsolated ==
    \A t \in Threads :
        (Dispatched(t) /\ call[t].failed # {}) =>
            call[t].invoked = HandlerSet(call[t].chan)

C10_Witness ==
    \E t \in Threads :
        /\ Dispatched(t)
        /\ pc[t] = "raised"
        /\ "logstash" \in call[t].failed
        /\ Cardinality(HandlerSet(call[t].chan)) >= 2
        /\ call[t].invoked = HandlerSet(call[t].chan)

-----------------------------------------------------------------------------
(* The log call and its record *)

\* The record of the log call in progress (or of the last one) is below the
\* level of its logger.
BelowThreshold == pcall.state # "idle" /\ LevelNo[record.levelname] < Threshold(record.name)

\* C12: a record whose level is below the level of the logger it is logged on
\* causes no formatter call and no write, on any handler of the logger and on
\* any handler reached by propagation to the root logger.
C12_BelowThresholdDropped ==
    BelowThreshold =>
        /\ pcall.state = "done"
        /\ pcall.nformat = 0
        /\ pcall.nwrite = 0
        /\ \A h \in AllHandlers : payload[h] = NoPayload
        /\ record = created

\* A DEBUG record has been logged on application_logger (level INFO, propagating)
\* while the root logger has a handler.
C12_Witness ==
    /\ BelowThreshold
    /\ record.name = "application_logger"
    /\ record.levelname = "DEBUG"
    /\ rootHandlers # <<>>

\* C13: formatting never changes the record: after any format call of any
\* formatter every field of the record, the captured exception included, is
\* what it was when the record was created.
C13_FormatLeavesRecord == record = created

\* C14: two format calls of one formatter on one record without exception
\* return the same payload, however much time passes between them.
C14_FormatDeterministic ==
    \A h \in AllHandlers :
        (created.exc_info = None /\ first[h] # NoPayload) => payload[h] = first[h]

\* C15: getLogger of a name that setup_logging did not configure fails, and no
\* getLogger call changes the set of loggers.
C15_GetUnknownFails ==
    /\ lastGet.name \notin Channels \cup {"none"} => lastGet.result = "error"
    /\ loggerDict = Channels

\* C16: on error_logger (error_file with the error formatter first, then
\* logstash with the JSON formatter) the JSON payload handed to the network
\* handler has the "exception" object exactly if the record was created with
\* an exception.
C16_JsonCarriesException ==
    (record.name = "error_logger" /\ payload["logstash"] # NoPayload) =>
        (payload["logstash"].exception # None <=> created.exc_info # None)

-----------------------------------------------------------------------------
(* The event loop, and the sockets of setup_logging *)

\* C11: while a log call is blocked in the handler's connect loop (it sleeps
\* after a failed attempt), every other task of the process (a request handler
\* that is ready to run) can run.
C11_OtherTasksRun ==
    \A t \in Threads, u \in Threads :
        (pc[u] = "connect_sleep" /\ pc[t] = "pending") => ENABLED RunRequest(t)

\* A socket that is connected toward the collector, or was until the peer
\* reset it.
ToCollector(s) == s \in {"connected", "broken"}

\* C17: in every state every socket open toward the collector is the socket
\* of a handler that the configuration attaches to a logger (the 'logstash'
\* handler). The handler of line 142 is attached to none.
C17_OpenSocketsAttached ==
    \A h \in {"first", "logstash"} :
        ToCollector(IF h = "first" THEN sockFirst ELSE sock) => h = "logstash"

====
